---- MODULE Spec2Model ----
(***************************************************************************)
(* A model of the synthetic-corpus generators of the repository:           *)
(*   src/datasets/generators/performance_generator.py   (prog "perf")      *)
(*   src/datasets/generators/document_generator.py      (prog "doc")       *)
(*   src/datasets/generators/logs_generator.py          (prog "logs")      *)
(* Each run of a generator's main() is one process r \in Runs: it seeds    *)
(* the random sources, builds the document list (in batches for "perf",    *)
(* tier by tier for "doc" and "logs"), shuffles a mixed corpus, writes the *)
(* list to the output file line by line and prints its statistics.         *)
(***************************************************************************)
EXTENDS Integers, Sequences, FiniteSets, TLC

----------------------------------------------------------------------------
(* Bounds of the model.                                                    *)

MaxCount == 20
MaxBatch == 2
MaxSeed == 1
RngMod == 2
MaxClock == 1
MaxPairCount == 3
MaxRawCount == 3
MaxNeg == 2
BigSpan == 5
ChunkSpan == 1

----------------------------------------------------------------------------
(* Program constants.                                                      *)

\* performance_generator.py:237-240 and document_generator.py:275-277,
\* the tier weights, in hundredths
PctSmall == 40
PctMedium == 35
PctLarge == 20
PctHuge == 5
\* logs_generator.py:258-260
PctApp == 50
PctAccess == 30
PctMetric == 15
\* performance_generator.py:277, the default chunk_size of the streaming writer
ChunkSize == 1000
\* performance_generator.py:359, the size above which streaming is forced
StreamThreshold == 50000
\* performance_generator.py:31-35, the number of values __init__ draws from fake
PoolDraws == 1900
\* performance_generator.py:323, the default of --batch-size
DefaultBatch == 1000

Runs == {1, 2}

\* the keys __init__ gives self.batch_templates
Templates == {"small", "medium", "large", "huge"}

\* PerfTiers with the first two tiers exchanged
PerfTiersSwapped == <<"medium", "small", "large", "huge">>

\* the keys of type_distribution, in the order the loop takes them
PerfTiers == <<"small", "medium", "large", "huge">>
LogTiers == <<"app", "access", "metric", "security">>

Progs == {"perf", "doc", "logs"}

----------------------------------------------------------------------------
(* Pure helpers.                                                           *)

Min(a, b) == IF a < b THEN a ELSE b

RECURSIVE Pow2Below(_, _)
\* the largest power of two strictly below k, searched upwards from p
Pow2Below(k, p) == IF 2 * p < k THEN Pow2Below(k, 2 * p) ELSE p

\* IntTimes with round() in the place of int()
IntTimesRounded(n, pct) == (n * pct + 50) \div 100

\* int(n * w) of Python for the weight w = pct/100 written as a float literal
\* and 0 <= n <= 200000.  The product is rounded to the nearest double before
\* int() truncates it.  Every literal used by the generators but 0.35 gives
\* the exact floor in that range.  The double nearest 0.35 is 0.35 - 0.4*2^-54,
\* so for n = 20*j the product 7*j - j*2^-51 lies below the integer 7*j by
\* more than half a unit in the last place, and is rounded down to the double
\* below 7*j, exactly when 4*j exceeds the largest power of two below 7*j
\* (n = 180, 340, 360, 660, ...): int() then gives 7*j - 1.  The product of
\* a negative n is the negated product of -n, and int() truncates towards 0.
IntTimes(n, pct) ==
    LET a == IF n < 0 THEN 0 - n ELSE n
        exact == (a * pct) \div 100
        v == IF pct = PctMedium /\ a > 0 /\ a % 20 = 0
                /\ 4 * (a \div 20) > Pow2Below(7 * (a \div 20), 1)
             THEN exact - 1
             ELSE exact
    IN  IF n < 0 THEN 0 - v ELSE v

\* PerfDistribution with every tier rounded up
PerfDistributionCeil(n) ==
    <<(n * PctSmall + 99) \div 100, (n * PctMedium + 99) \div 100,
      (n * PctLarge + 99) \div 100, (n * PctHuge + 99) \div 100>>

\* type_distribution of generate_performance_dataset: every tier, the last
\* included, gets int(total_count * weight)
PerfDistribution(n) ==
    <<IntTimes(n, PctSmall), IntTimes(n, PctMedium),
      IntTimes(n, PctLarge), IntTimes(n, PctHuge)>>

\* DocDistribution with the last tier computed from its weight like the others
DocDistributionByWeight(n) ==
    <<IntTimes(n, PctSmall), IntTimes(n, PctMedium),
      IntTimes(n, PctLarge), IntTimes(n, PctHuge)>>

\* small_count .. huge_count of generate_mixed_documents: the last tier gets
\* what is left
DocDistribution(n) ==
    LET s == IntTimes(n, PctSmall)
        m == IntTimes(n, PctMedium)
        l == IntTimes(n, PctLarge)
    IN  <<s, m, l, n - s - m - l>>

\* app_count .. security_count of generate_mixed_logs
LogsDistribution(n) ==
    LET a == IntTimes(n, PctApp)
        c == IntTimes(n, PctAccess)
        m == IntTimes(n, PctMetric)
    IN  <<a, c, m, n - a - c - m>>

RECURSIVE SumSeq(_)
SumSeq(s) == IF s = <<>> THEN 0 ELSE Head(s) + SumSeq(Tail(s))

\* the random sources are modelled as a counter modulo RngMod: a draw returns
\* the state and advances it, so the values drawn are a function of the state
\* the source had when it was seeded (or of the entropy it started from)
Advance(s, k) == (s + k) % RngMod

\* the number of turns of `for i in range(n)`: none for n <= 0
Draws(n) == IF n > 0 THEN n ELSE 0

\* random.seed(seed), fake.seed_instance(seed): the state is a function of seed
SeedState(seed) == seed % RngMod

\* if args.seed: -- the test main() makes on the parsed --seed
SeedTruthy(q) == q.seedGiven /\ q.seed # 0

\* Swap that copies one way only: x[i] = x[j]
SwapOverwrite(s, i, j) == [s EXCEPT ![i] = s[j]]

\* x[i], x[j] = x[j], x[i]
Swap(s, i, j) == [s EXCEPT ![i] = s[j], ![j] = s[i]]

RECURSIVE FisherYates(_, _, _)
\* random.shuffle(x): for i from len-1 down to 1, j = randbelow(i+1) and
\* x[i], x[j] are exchanged (positions here are 1-based: i+1 and j+1)
FisherYates(s, i, st) ==
    IF i < 1 THEN s
    ELSE FisherYates(Swap(s, i + 1, (st % (i + 1)) + 1), i - 1, Advance(st, 1))

Shuffled(s, st) == FisherYates(s, Len(s) - 1, st)

\* the state of random after random.shuffle of n elements
AfterShuffle(n, st) == IF n > 1 THEN Advance(st, n - 1) ELSE st

\* the serialized length of a document, json.dumps(doc) + '\n', in units of
\* the smallest document: it grows with the tier and is never 0
DocBytes(d) ==
    CASE d.tier \in {"small", "app", "ts"} -> 1
      [] d.tier \in {"medium", "access"} -> 2
      [] d.tier \in {"large", "metric"} -> 3
      [] OTHER -> 4

RECURSIVE TotalBytes(_)
TotalBytes(s) == IF s = <<>> THEN 0 ELSE DocBytes(Head(s)) + TotalBytes(Tail(s))

CountTier(s, t) == Cardinality({i \in 1..Len(s) : s[i].tier = t})

Ids(s) == {<<s[i].tier, s[i].idx>> : i \in 1..Len(s)}

----------------------------------------------------------------------------
(* The state.  Every variable is a function of the run.                    *)

VARIABLES
    req,              \* the parsed command line (args), fixed for the run
    proc,             \* the interpreter process the run executes in
    pc,               \* where the run's main() stands
    rnd,              \* the state of the module-level source `random`
    fk,               \* the state of the module-level Faker instance `fake`
    rndSeeded,        \* random.seed was called
    fakeSeeded,       \* fake.seed_instance was called
    clock,            \* the wall clock datetime.now() reads
    pools,            \* the pre-generated common_* pools of the generator
    registry,         \* the keys of self.batch_templates of the generator
    plan,             \* the per-tier target counts, in tier order
    order,            \* the tiers the generation loop goes through
    tierIdx,          \* the position of the loop over the tiers
    batchNum,         \* batch_num of the inner loop
    currentId,        \* current_id
    batchesProcessed, \* batches_processed
    documents,        \* the list `documents` (`logs`) held in memory
    shuffles,         \* how many times random.shuffle ran
    sink,             \* the output file
    stats,            \* what the statistics step printed
    error             \* the exception that ended main(), "none" if none did

vars == <<req, proc, pc, rnd, fk, rndSeeded, fakeSeeded, clock, pools, registry,
          plan, order,
          tierIdx, batchNum, currentId, batchesProcessed, documents, shuffles,
          sink, stats, error>>

rngVars == <<rnd, fk, rndSeeded, fakeSeeded>>
loopVars == <<plan, order, tierIdx, batchNum, currentId, batchesProcessed>>

\* the output file: how it is written (writer), the lines of a line-delimited
\* file, the elements of the array of a JSON file and whether the array is
\* complete, and the position of the flushes
NoSink == [opens |-> 0, closes |-> 0, isOpen |-> FALSE, writer |-> "none",
           lines |-> <<>>, array |-> <<>>, arrayDone |-> FALSE,
           flushes |-> 0, sinceFlush |-> 0]

NoStats == [printed |-> FALSE, complete |-> FALSE, documentCount |-> 0,
            totalBytes |-> 0, perTier |-> <<>>]

\* the choices of --type of each program
Types(prog) ==
    CASE prog = "perf" -> {"small", "medium", "large", "huge", "mixed", "timeseries"}
      [] prog = "doc" -> {"small", "medium", "large", "huge", "mixed"}
      [] prog = "logs" -> {"app", "access", "metric", "security", "mixed"}

\* the command lines argparse accepts with a count and a batch size that are
\* positive or, for the count, 0: --count, --type, --batch-size, --seed,
\* --streaming (performance generator only) and --format (the other two; the
\* performance generator writes line-delimited files only)
Requests(maxCount) ==
    {q \in [prog : Progs,
            type : {"small", "medium", "large", "huge", "mixed", "timeseries",
                    "app", "access", "metric", "security"},
            count : 0..maxCount,
            batch : 1..MaxBatch,
            seedGiven : BOOLEAN,
            seed : 0..MaxSeed,
            streaming : BOOLEAN,
            format : {"ndjson", "json"},
            entry : {"main"}] :
        /\ q.type \in Types(q.prog)
        /\ (q.prog # "perf" => q.batch = 1 /\ ~q.streaming)
        /\ (q.prog = "perf" => q.format = "ndjson")
        /\ (~q.seedGiven => q.seed = 0)}

IdleRequest ==
    [prog |-> "perf", type |-> "mixed", count |-> 0, batch |-> 1,
     seedGiven |-> FALSE, seed |-> 0, streaming |-> FALSE,
     format |-> "ndjson", entry |-> "main"]

\* the state common to every start: nothing generated, nothing written
InitRest ==
    /\ rndSeeded = [r \in Runs |-> FALSE]
    /\ fakeSeeded = [r \in Runs |-> FALSE]
    /\ pools = [r \in Runs |-> 0]
    /\ registry = [r \in Runs |-> {}]
    /\ plan = [r \in Runs |-> <<>>]
    /\ order = [r \in Runs |-> <<>>]
    /\ tierIdx = [r \in Runs |-> 1]
    /\ batchNum = [r \in Runs |-> 0]
    /\ currentId = [r \in Runs |-> 0]
    /\ batchesProcessed = [r \in Runs |-> 0]
    /\ documents = [r \in Runs |-> <<>>]
    /\ shuffles = [r \in Runs |-> 0]
    /\ sink = [r \in Runs |-> NoSink]
    /\ stats = [r \in Runs |-> NoStats]
    /\ error = [r \in Runs |-> "none"]

\* one run of one generator; the second process never starts.  The entropy
\* the sources random and fake took from the operating system at import is
\* drawn where main() decides to keep it (SeedSources).  The run starts at the
\* last instant the clock of the model shows, so every document of the run
\* reads the same time: nothing checked of a single run depends on it.
Init ==
    /\ \E q \in Requests(MaxCount) : req = [r \in Runs |-> IF r = 1 THEN q ELSE IdleRequest]
    /\ proc = [r \in Runs |-> r]
    /\ pc = [r \in Runs |-> IF r = 1 THEN "start" ELSE "off"]
    /\ rnd = [r \in Runs |-> 0]
    /\ fk = [r \in Runs |-> 0]
    /\ clock = [r \in Runs |-> MaxClock]
    /\ InitRest

----------------------------------------------------------------------------
(* main(): seeding and construction.                                       *)

\* if args.seed: random.seed(args.seed); fake.seed_instance(args.seed).
\* Otherwise both sources keep the state they took from the entropy of the
\* operating system, which is any state.  `random` and `fake` are globals of
\* the module: they are the sources of the process, whichever run uses them.
SeedSources(r) ==
    /\ pc[r] = "start"
    /\ IF SeedTruthy(req[r])
       THEN /\ rnd' = [rnd EXCEPT ![proc[r]] = SeedState(req[r].seed)]
            /\ fk' = [fk EXCEPT ![proc[r]] = SeedState(req[r].seed)]
            /\ rndSeeded' = [rndSeeded EXCEPT ![proc[r]] = TRUE]
            /\ fakeSeeded' = [fakeSeeded EXCEPT ![proc[r]] = TRUE]
       ELSE /\ \E e \in 0..(RngMod - 1) : rnd' = [rnd EXCEPT ![proc[r]] = e]
            /\ \E e \in 0..(RngMod - 1) : fk' = [fk EXCEPT ![proc[r]] = e]
            /\ UNCHANGED <<rndSeeded, fakeSeeded>>
    /\ pc' = [pc EXCEPT ![r] = "construct"]
    /\ UNCHANGED <<req, proc, clock, pools, registry, loopVars, documents, shuffles, sink, stats, error>>

\* generator = PerformanceGenerator(): __init__ registers the four templates
\* and fills the common_* pools from fake; DocumentGenerator() and
\* LogsGenerator() have neither and draw nothing
Construct(r) ==
    /\ pc[r] = "construct"
    /\ IF req[r].prog = "perf"
       THEN /\ pools' = [pools EXCEPT ![r] = fk[proc[r]]]
            /\ registry' = [registry EXCEPT ![r] = Templates]
            /\ fk' = [fk EXCEPT ![proc[r]] = Advance(fk[proc[r]], PoolDraws)]
       ELSE UNCHANGED <<pools, registry, fk>>
    /\ pc' = [pc EXCEPT ![r] = "plan"]
    /\ UNCHANGED <<req, proc, rnd, rndSeeded, fakeSeeded, clock, loopVars, documents,
                   shuffles, sink, stats, error>>

----------------------------------------------------------------------------
(* Generation.                                                             *)

\* MakeDocs with the identifiers counted from start + 1
MakeDocsFromOne(tier, start, k, t, rs, fs) ==
    [i \in 1..k |->
        [tier |-> tier, idx |-> start + i, ts |-> t,
         rv |-> Advance(rs, i - 1), fv |-> Advance(fs, i - 1)]]

\* k documents of one tier with the identifiers tier_start .. tier_(start+k-1).
\* A template returns {"id": doc_id, ...}: the other fields are what it reads
\* from the clock (ts) and draws from random (rv) and from fake (fv).
MakeDocs(tier, start, k, t, rs, fs) ==
    [i \in 1..k |->
        [tier |-> tier, idx |-> start + i - 1, ts |-> t,
         rv |-> Advance(rs, i - 1), fv |-> Advance(fs, i - 1)]]

\* where control goes when the generation function returns its list: to the
\* save step of main(), or back to the caller of the function
AfterGenerate(r) == IF req[r].entry = "api" THEN "returned" ELSE "save"

\* generate_small_template is the one template that reads datetime.now()
ReadsClock(tier) == tier = "small"

\* batches = (count + batch_size - 1) // batch_size
Batches(count, batchSize) == (count + batchSize - 1) \div batchSize

\* BatchCount without the min: every batch is a full batch
BatchCountFull(count, batchSize, num) == batchSize

\* batch_count = min(batch_size, count - batch_num * batch_size)
BatchCount(count, batchSize, num) == Min(batchSize, count - num * batchSize)

\* NextId with the increment of current_id left out
NextIdStuck(cur, n) == cur

\* NextId that counts batches, not documents
NextIdByOne(cur, n) == cur + 1

\* current_id += batch_count
NextId(cur, n) == cur + n

\* generate_performance_dataset up to the loops: the mixed branch builds
\* type_distribution, the single-type branch loops over total_count
PerfPlan(r) ==
    /\ pc[r] = "plan"
    /\ req[r].prog = "perf"
    /\ req[r].type # "timeseries"
    /\ IF req[r].type = "mixed"
       THEN /\ plan' = [plan EXCEPT ![r] = PerfDistribution(req[r].count)]
            /\ order' = [order EXCEPT ![r] = PerfTiers]
       ELSE /\ plan' = [plan EXCEPT ![r] = <<req[r].count>>]
            /\ order' = [order EXCEPT ![r] = <<req[r].type>>]
    /\ tierIdx' = [tierIdx EXCEPT ![r] = 1]
    /\ batchNum' = [batchNum EXCEPT ![r] = 0]
    /\ currentId' = [currentId EXCEPT ![r] = 0]
    /\ batchesProcessed' = [batchesProcessed EXCEPT ![r] = 0]
    /\ documents' = [documents EXCEPT ![r] = <<>>]
    /\ pc' = [pc EXCEPT ![r] = "generate"]
    /\ UNCHANGED <<req, proc, rngVars, clock, pools, registry, shuffles, sink, stats, error>>

\* GenerateBatchFrame for templates that take the values they use out of the
\* pool
GenerateBatchPops(r) ==
    /\ pools' = [pools EXCEPT ![r] = Advance(@, 1)]
    /\ UNCHANGED registry

\* generate_batch and the templates assign no attribute of the generator:
\* the pools are only read (random.choice, random.sample), the registry only
\* looked up
GenerateBatchFrame(r) == UNCHANGED <<pools, registry>>

\* one turn of the inner loop: generate_batch(dtype, current_id, batch_count)
\* and documents.extend(batch_docs)
PerfBatch(r) ==
    /\ pc[r] = "generate"
    /\ req[r].prog = "perf"
    /\ tierIdx[r] <= Len(order[r])
    /\ req[r].batch # 0
    /\ batchNum[r] < Batches(plan[r][tierIdx[r]], req[r].batch)
    /\ LET tier == order[r][tierIdx[r]]
           n == BatchCount(plan[r][tierIdx[r]], req[r].batch, batchNum[r])
       IN  IF n > 0
           THEN \E t \in (IF ReadsClock(tier) THEN clock[r]..MaxClock ELSE {clock[r]}) :
                  /\ tier \in registry[r]
                  /\ documents' = [documents EXCEPT ![r] =
                        @ \o MakeDocs(tier, currentId[r], n,
                                      IF ReadsClock(tier) THEN t ELSE 0, rnd[proc[r]], fk[proc[r]])]
                  /\ clock' = [clock EXCEPT ![r] = t]
                  /\ rnd' = [rnd EXCEPT ![proc[r]] = Advance(@, n)]
                  /\ fk' = [fk EXCEPT ![proc[r]] = Advance(@, n)]
                  /\ currentId' = [currentId EXCEPT ![r] = NextId(@, n)]
                  /\ batchesProcessed' = [batchesProcessed EXCEPT ![r] = @ + 1]
           ELSE UNCHANGED <<documents, clock, rnd, fk, currentId, batchesProcessed>>
    /\ batchNum' = [batchNum EXCEPT ![r] = @ + 1]
    /\ GenerateBatchFrame(r)
    /\ UNCHANGED <<req, proc, pc, rndSeeded, fakeSeeded, plan, order, tierIdx,
                   shuffles, sink, stats, error>>

\* template_func = self.batch_templates[doc_type] of generate_batch raises
\* KeyError for a tier that has no template; generate_batch is called only
\* for a batch_count above 0
PerfBatchKeyError(r) ==
    /\ pc[r] = "generate"
    /\ req[r].prog = "perf"
    /\ tierIdx[r] <= Len(order[r])
    /\ req[r].batch # 0
    /\ batchNum[r] < Batches(plan[r][tierIdx[r]], req[r].batch)
    /\ BatchCount(plan[r][tierIdx[r]], req[r].batch, batchNum[r]) > 0
    /\ order[r][tierIdx[r]] \notin registry[r]
    /\ pc' = [pc EXCEPT ![r] = "aborted"]
    /\ error' = [error EXCEPT ![r] = "KeyError"]
    /\ UNCHANGED <<req, proc, rngVars, clock, pools, registry, loopVars, documents, shuffles,
                   sink, stats>>

\* batches = (count + batch_size - 1) // batch_size raises ZeroDivisionError
\* for a batch_size of 0, at the first tier the loop reaches
PerfBatchesDivZero(r) ==
    /\ pc[r] = "generate"
    /\ req[r].prog = "perf"
    /\ tierIdx[r] <= Len(order[r])
    /\ req[r].batch = 0
    /\ pc' = [pc EXCEPT ![r] = "aborted"]
    /\ error' = [error EXCEPT ![r] = "ZeroDivisionError"]
    /\ UNCHANGED <<req, proc, rngVars, clock, pools, registry, loopVars, documents, shuffles,
                   sink, stats>>

\* Ctrl-C while the list is being built: KeyboardInterrupt is raised between
\* two turns of the loop, nothing in the generators catches it and main()
\* ends with it
Cancel(r) ==
    /\ pc[r] = "generate"
    /\ pc' = [pc EXCEPT ![r] = "aborted"]
    /\ error' = [error EXCEPT ![r] = "KeyboardInterrupt"]
    /\ UNCHANGED <<req, proc, rngVars, clock, pools, registry, loopVars, documents, shuffles,
                   sink, stats>>

\* the inner loop of a tier is over: the outer loop takes the next tier
PerfNextTier(r) ==
    /\ pc[r] = "generate"
    /\ req[r].prog = "perf"
    /\ tierIdx[r] <= Len(order[r])
    /\ req[r].batch # 0
    /\ batchNum[r] >= Batches(plan[r][tierIdx[r]], req[r].batch)
    /\ tierIdx' = [tierIdx EXCEPT ![r] = @ + 1]
    /\ batchNum' = [batchNum EXCEPT ![r] = 0]
    /\ UNCHANGED <<req, proc, pc, rngVars, clock, pools, registry, plan, order, currentId,
                   batchesProcessed, documents, shuffles, sink, stats, error>>

\* random.shuffle(documents) at the end of a mixed request, and the return
ShuffleAll(r) ==
    /\ documents' = [documents EXCEPT ![r] = Shuffled(@, rnd[proc[r]])]
    /\ rnd' = [rnd EXCEPT ![proc[r]] = AfterShuffle(Len(documents[r]), @)]
    /\ shuffles' = [shuffles EXCEPT ![r] = @ + 1]
    /\ pc' = [pc EXCEPT ![r] = AfterGenerate(r)]
    /\ UNCHANGED <<req, proc, fk, rndSeeded, fakeSeeded, clock, pools, registry, loopVars, sink,
                   stats, error>>

PerfShuffle(r) ==
    /\ pc[r] = "generate"
    /\ req[r].prog = "perf"
    /\ req[r].type = "mixed"
    /\ tierIdx[r] > Len(order[r])
    /\ ShuffleAll(r)

\* the single-type branch returns the list as generated
PerfReturn(r) ==
    /\ pc[r] = "generate"
    /\ req[r].prog = "perf"
    /\ req[r].type # "mixed"
    /\ tierIdx[r] > Len(order[r])
    /\ pc' = [pc EXCEPT ![r] = AfterGenerate(r)]
    /\ UNCHANGED <<req, proc, rngVars, clock, pools, registry, loopVars, documents, shuffles,
                   sink, stats, error>>

\* generate_time_series_data(count, 'small'): start_time = datetime.now() - 7
\* days, then count small documents ts_0 .. whose timestamp is overwritten by
\* start_time + i minutes
PerfTimeSeries(r) ==
    /\ pc[r] = "plan"
    /\ req[r].prog = "perf"
    /\ req[r].type = "timeseries"
    /\ \E t \in clock[r]..MaxClock :
          /\ documents' = [documents EXCEPT ![r] =
                MakeDocs("ts", 0, req[r].count, t, rnd[proc[r]], fk[proc[r]])]
          /\ clock' = [clock EXCEPT ![r] = t]
    /\ rnd' = [rnd EXCEPT ![proc[r]] = Advance(@, Draws(req[r].count))]
    /\ fk' = [fk EXCEPT ![proc[r]] = Advance(@, Draws(req[r].count))]
    /\ pc' = [pc EXCEPT ![r] = AfterGenerate(r)]
    /\ UNCHANGED <<req, proc, rndSeeded, fakeSeeded, pools, registry, loopVars, shuffles, sink,
                   stats, error>>

\* the counts computed at the head of generate_mixed_documents and of
\* generate_mixed_logs
MixedPlan(r, dist, tiers) ==
    /\ pc[r] = "plan"
    /\ req[r].type = "mixed"
    /\ plan' = [plan EXCEPT ![r] = dist]
    /\ order' = [order EXCEPT ![r] = tiers]
    /\ tierIdx' = [tierIdx EXCEPT ![r] = 1]
    /\ documents' = [documents EXCEPT ![r] = <<>>]
    /\ pc' = [pc EXCEPT ![r] = "generate"]
    /\ UNCHANGED <<req, proc, rngVars, clock, pools, registry, batchNum, currentId,
                   batchesProcessed, shuffles, sink, stats, error>>

\* one of the four loops `for i in range(tier_count)`: the identifiers of
\* every tier start again at 0
TierLoop(r) ==
    /\ pc[r] = "generate"
    /\ tierIdx[r] <= Len(order[r])
    /\ LET n == plan[r][tierIdx[r]]
       IN  /\ documents' = [documents EXCEPT ![r] =
                 @ \o MakeDocs(order[r][tierIdx[r]], 0, n, 0, rnd[proc[r]], fk[proc[r]])]
           /\ rnd' = [rnd EXCEPT ![proc[r]] = Advance(@, Draws(n))]
           /\ fk' = [fk EXCEPT ![proc[r]] = Advance(@, Draws(n))]
    /\ tierIdx' = [tierIdx EXCEPT ![r] = @ + 1]
    /\ UNCHANGED <<req, proc, pc, rndSeeded, fakeSeeded, clock, pools, registry, plan, order,
                   batchNum, currentId, batchesProcessed, shuffles, sink, stats, error>>

\* a single-type request: [generate_x(f"x_{i}") for i in range(count)]
SingleAll(r) ==
    /\ pc[r] = "plan"
    /\ req[r].type # "mixed"
    /\ req[r].type \in Types(req[r].prog)
    /\ documents' = [documents EXCEPT ![r] =
          MakeDocs(req[r].type, 0, req[r].count, 0, rnd[proc[r]], fk[proc[r]])]
    /\ rnd' = [rnd EXCEPT ![proc[r]] = Advance(@, Draws(req[r].count))]
    /\ fk' = [fk EXCEPT ![proc[r]] = Advance(@, Draws(req[r].count))]
    /\ pc' = [pc EXCEPT ![r] = AfterGenerate(r)]
    /\ UNCHANGED <<req, proc, rndSeeded, fakeSeeded, clock, pools, registry, loopVars, shuffles,
                   sink, stats, error>>

DocPlan(r) == req[r].prog = "doc" /\ MixedPlan(r, DocDistribution(req[r].count), PerfTiers)

DocTier(r) == req[r].prog = "doc" /\ TierLoop(r)

DocShuffle(r) ==
    /\ pc[r] = "generate"
    /\ req[r].prog = "doc"
    /\ tierIdx[r] > Len(order[r])
    /\ ShuffleAll(r)

DocSingle(r) == req[r].prog = "doc" /\ SingleAll(r)

\* the else branch of generate_documents: raise ValueError("Unknown document
\* type"), before anything is generated
DocValueError(r) ==
    /\ pc[r] = "plan"
    /\ req[r].prog = "doc"
    /\ req[r].type \notin Types("doc")
    /\ pc' = [pc EXCEPT ![r] = "aborted"]
    /\ error' = [error EXCEPT ![r] = "ValueError"]
    /\ UNCHANGED <<req, proc, rngVars, clock, pools, registry, loopVars, documents, shuffles,
                   sink, stats>>

LogsPlan(r) == req[r].prog = "logs" /\ MixedPlan(r, LogsDistribution(req[r].count), LogTiers)

LogsTier(r) == req[r].prog = "logs" /\ TierLoop(r)

LogsShuffle(r) ==
    /\ pc[r] = "generate"
    /\ req[r].prog = "logs"
    /\ tierIdx[r] > Len(order[r])
    /\ ShuffleAll(r)

LogsSingle(r) == req[r].prog = "logs" /\ SingleAll(r)

----------------------------------------------------------------------------
(* Saving and statistics.                                                  *)

\* if args.streaming or len(documents) > 50000: the streaming writer is used,
\* for a list of n documents
UseStreaming(q, n) == q.prog = "perf" /\ (q.streaming \/ n > StreamThreshold)

Streaming(r) == UseStreaming(req[r], Len(documents[r]))

\* the function main() saves a list of n documents with:
\* save_as_ndjson_streaming or the plain loop over the list in the performance
\* generator, save_as_json or save_as_ndjson by args.format in the other two
WriterFor(q, n) ==
    IF UseStreaming(q, n) THEN "streaming"
    ELSE IF q.prog # "perf" /\ q.format = "json" THEN "array"
    ELSE "plain"

\* something of the list is still to be written
Pending(r) ==
    IF sink[r].writer = "array" THEN ~sink[r].arrayDone
    ELSE Len(sink[r].lines) < Len(documents[r])

\* with open(filepath, 'w') as f: the file is created or truncated
OpenSink(r) ==
    /\ pc[r] = "save"
    /\ sink' = [sink EXCEPT ![r] =
          [opens |-> @.opens + 1, closes |-> @.closes, isOpen |-> TRUE,
           writer |-> WriterFor(req[r], Len(documents[r])),
           lines |-> <<>>, array |-> <<>>, arrayDone |-> FALSE,
           flushes |-> 0, sinceFlush |-> 0]]
    /\ pc' = [pc EXCEPT ![r] = "writing"]
    /\ UNCHANGED <<req, proc, rngVars, clock, pools, registry, loopVars, documents, shuffles, stats, error>>

\* os.makedirs or open raises: nothing was opened, main() ends with the error
OpenFail(r) ==
    /\ pc[r] = "save"
    /\ pc' = [pc EXCEPT ![r] = "crashed"]
    /\ error' = [error EXCEPT ![r] = "OSError"]
    /\ UNCHANGED <<req, proc, rngVars, clock, pools, registry, loopVars, documents, shuffles,
                   sink, stats>>

\* LineOf for a streaming loop that serializes the first document every time
LineOfStale(r, i) == IF Streaming(r) THEN documents[r][1] ELSE documents[r][i + 1]

\* json.dumps(doc) + '\n' for the doc of turn i of `for doc in documents`
\* (`for i, doc in enumerate(documents)` in the streaming writer): the line of
\* the element i of the list, counted from 0, on both paths
LineOf(r, i) == documents[r][i + 1]

\* f.write(json.dumps(doc) + '\n') for the next document of the list; the
\* streaming writer flushes when (i + 1) % chunk_size == 0
WriteDoc(r) ==
    /\ pc[r] = "writing"
    /\ sink[r].writer # "array"
    /\ Len(sink[r].lines) < Len(documents[r])
    /\ LET i == Len(sink[r].lines)
           flush == Streaming(r) /\ (i + 1) % ChunkSize = 0
       IN  sink' = [sink EXCEPT ![r] =
              [@ EXCEPT !.lines = Append(@, LineOf(r, i)),
                        !.flushes = IF flush THEN @ + 1 ELSE @,
                        !.sinceFlush = IF flush THEN 0 ELSE @ + 1]]
    /\ UNCHANGED <<req, proc, pc, rngVars, clock, pools, registry, loopVars, documents, shuffles,
                   stats, error>>

\* save_as_json: json.dump(documents, f, indent=2) serializes the list held in
\* memory as one array, element after element in the order of the list
WriteArray(r) ==
    /\ pc[r] = "writing"
    /\ sink[r].writer = "array"
    /\ ~sink[r].arrayDone
    /\ sink' = [sink EXCEPT ![r] =
          [@ EXCEPT !.array = documents[r], !.arrayDone = TRUE,
                    !.sinceFlush = Len(documents[r])]]
    /\ UNCHANGED <<req, proc, pc, rngVars, clock, pools, registry, loopVars, documents, shuffles,
                   stats, error>>

\* WriteFail for a file opened without a with statement: the exception leaves
\* the loop and the file stays open
WriteFailLeak(r) ==
    /\ pc[r] = "writing"
    /\ Pending(r)
    /\ pc' = [pc EXCEPT ![r] = "crashed"]
    /\ error' = [error EXCEPT ![r] = "OSError"]
    /\ UNCHANGED <<req, proc, rngVars, clock, pools, registry, loopVars, documents, shuffles,
                   sink, stats>>

\* json.dumps, json.dump or f.write raises: the with statement
\* closes the file while the exception leaves the block, nothing catches it
\* and main() ends without printing statistics
WriteFail(r) ==
    /\ pc[r] = "writing"
    /\ Pending(r)
    /\ sink' = [sink EXCEPT ![r] =
          [@ EXCEPT !.isOpen = FALSE, !.closes = @ + 1, !.sinceFlush = 0,
                    !.flushes = IF sink[r].sinceFlush > 0 THEN @ + 1 ELSE @]]
    /\ pc' = [pc EXCEPT ![r] = "crashed"]
    /\ error' = [error EXCEPT ![r] = "OSError"]
    /\ UNCHANGED <<req, proc, rngVars, clock, pools, registry, loopVars, documents, shuffles, stats>>

\* the loop is over: the with statement closes the file, which flushes what
\* was written since the last flush, if anything was
CloseSink(r) ==
    /\ pc[r] = "writing"
    /\ ~Pending(r)
    /\ sink' = [sink EXCEPT ![r] =
          [@ EXCEPT !.isOpen = FALSE, !.closes = @ + 1, !.sinceFlush = 0,
                    !.flushes = IF sink[r].sinceFlush > 0 THEN @ + 1 ELSE @]]
    /\ pc' = [pc EXCEPT ![r] = "stats"]
    /\ UNCHANGED <<req, proc, rngVars, clock, pools, registry, loopVars, documents, shuffles, stats, error>>

\* total_size: os.path.getsize(args.output) in the performance generator, the
\* sum of the serialized lengths of the list in the other two
TotalSize(r) ==
    IF req[r].prog = "perf" THEN TotalBytes(sink[r].lines)
    ELSE TotalBytes(documents[r])

\* LogTypeOf without the default: the tier the entry was generated for
LogTypeOfNoDefault(d) == d.tier

\* log.get('type', 'application'): access, metric and security entries carry a
\* top-level "type" with the name of their tier, an application entry has no
\* such key and gets the default
LogTypeOf(d) == IF d.tier \in {"access", "metric", "security"} THEN d.tier ELSE "application"

\* the keys type_counts can get, in the order of the tiers
LogTypeNames == <<"application", "access", "metric", "security">>

\* type_counts of the logs generator, for a mixed request: the entries of the
\* list per log type (a type without entries has no key, which is shown as 0)
TypeCounts(r) ==
    IF req[r].prog = "logs" /\ req[r].type = "mixed"
    THEN [k \in 1..Len(LogTypeNames) |->
            Cardinality({i \in 1..Len(documents[r]) :
                            LogTypeOf(documents[r][i]) = LogTypeNames[k]})]
    ELSE <<>>

\* ReportedCount with the count of the command line in the place of the
\* length of the list
ReportedCountRequested(r) == req[r].count

\* len(documents), the count the statistics report
ReportedCount(r) == Len(documents[r])

\* avg_size = total_size / len(documents), then the statistics are printed; the
\* division raises ZeroDivisionError for an empty list and nothing is printed
ComputeStats(r) ==
    /\ pc[r] = "stats"
    /\ IF Len(documents[r]) = 0
       THEN /\ pc' = [pc EXCEPT ![r] = "crashed"]
            /\ error' = [error EXCEPT ![r] = "ZeroDivisionError"]
            /\ UNCHANGED stats
       ELSE /\ stats' = [stats EXCEPT ![r] =
                  [printed |-> TRUE, complete |-> TRUE,
                   documentCount |-> ReportedCount(r),
                   totalBytes |-> TotalSize(r), perTier |-> TypeCounts(r)]]
            /\ pc' = [pc EXCEPT ![r] = "done"]
            /\ UNCHANGED error
    /\ UNCHANGED <<req, proc, rngVars, clock, pools, registry, loopVars, documents, shuffles, sink>>

----------------------------------------------------------------------------
(* The specifications.                                                     *)

Step(r) ==
    \/ SeedSources(r)
    \/ Construct(r)
    \/ PerfPlan(r)
    \/ PerfBatch(r)
    \/ PerfNextTier(r)
    \/ PerfShuffle(r)
    \/ PerfReturn(r)
    \/ PerfTimeSeries(r)
    \/ Cancel(r)
    \/ DocPlan(r)
    \/ DocTier(r)
    \/ DocShuffle(r)
    \/ DocSingle(r)
    \/ LogsPlan(r)
    \/ LogsTier(r)
    \/ LogsShuffle(r)
    \/ LogsSingle(r)
    \/ OpenSink(r)
    \/ OpenFail(r)
    \/ WriteDoc(r)
    \/ WriteArray(r)
    \/ WriteFail(r)
    \/ CloseSink(r)
    \/ ComputeStats(r)

Next == \E r \in Runs : Step(r)

Spec == Init /\ [][Next]_vars

----------------------------------------------------------------------------
(* Two independent runs of the performance generator on one command line.  *)

Terminal(r) == pc[r] \in {"done", "crashed"}

\* command lines of the performance generator with a --seed that main()
\* takes as one
PairRequests ==
    {q \in Requests(MaxPairCount) : q.prog = "perf" /\ SeedTruthy(q)}

\* both processes get the same command line; each has its own sources, the
\* clock of each counts from its own start
InitPair ==
    /\ \E q \in PairRequests : req = [r \in Runs |-> q]
    /\ proc = [r \in Runs |-> r]
    /\ pc = [r \in Runs |-> "start"]
    /\ rnd = [r \in Runs |-> 0]
    /\ fk = [r \in Runs |-> 0]
    /\ clock = [r \in Runs |-> 0]
    /\ InitRest

\* a run whose output file takes every write
StepPair(r) ==
    \/ SeedSources(r)
    \/ Construct(r)
    \/ PerfPlan(r)
    \/ PerfBatch(r)
    \/ PerfNextTier(r)
    \/ PerfShuffle(r)
    \/ PerfReturn(r)
    \/ PerfTimeSeries(r)
    \/ OpenSink(r)
    \/ WriteDoc(r)
    \/ CloseSink(r)
    \/ ComputeStats(r)

\* the processes share nothing, so their steps commute: the second is run
\* after the first has ended
NextPair ==
    \/ StepPair(1)
    \/ (Terminal(1) /\ StepPair(2))

SpecPair == InitPair /\ [][NextPair]_vars

----------------------------------------------------------------------------
(* Requests as they reach the code, valid or not.                          *)

\* a tier identifier no generator registers
UnknownTier == "unknown"

\* The command lines argparse accepts: --count and --batch-size are any
\* integers (type=int), --type is one of the choices.  And the calls of
\* generate_performance_dataset(total_count, doc_type, batch_size) and of
\* generate_documents(doc_type, count) by a caller other than main(), which
\* passes any string for doc_type.
RawRequests ==
    {q \in [prog : Progs,
            type : {"small", "medium", "large", "huge", "mixed", "timeseries",
                    "app", "access", "metric", "security", UnknownTier},
            count : (0 - MaxNeg)..MaxRawCount,
            batch : (0 - MaxNeg)..MaxBatch,
            seedGiven : BOOLEAN,
            seed : 0..MaxSeed,
            streaming : BOOLEAN,
            format : {"ndjson", "json"},
            entry : {"main", "api"}] :
        /\ (q.entry = "main" => q.type \in Types(q.prog))
        /\ (q.entry = "api" =>
                /\ q.prog \in {"perf", "doc"}
                /\ q.type \in (Types(q.prog) \ {"timeseries"}) \cup {UnknownTier}
                /\ q.format = "ndjson"
                /\ ~q.streaming
                /\ ~q.seedGiven)
        /\ (q.prog # "perf" => q.batch = 1 /\ ~q.streaming)
        /\ (q.prog = "perf" => q.format = "ndjson")
        /\ (~q.seedGiven => q.seed = 0)}

\* a caller of the generation function constructs the generator and calls
\* the function; a command line starts at main()
InitRaw ==
    /\ \E q \in RawRequests : req = [r \in Runs |-> IF r = 1 THEN q ELSE IdleRequest]
    /\ proc = [r \in Runs |-> r]
    /\ pc = [r \in Runs |-> IF r # 1 THEN "off"
                             ELSE IF req[r].entry = "api" THEN "construct" ELSE "start"]
    /\ rnd = [r \in Runs |-> 0]
    /\ fk = [r \in Runs |-> 0]
    /\ clock = [r \in Runs |-> MaxClock]
    /\ InitRest

StepRaw(r) ==
    \/ Step(r)
    \/ PerfBatchKeyError(r)
    \/ PerfBatchesDivZero(r)
    \/ DocValueError(r)

NextRaw == \E r \in Runs : StepRaw(r)

SpecRaw == InitRaw /\ [][NextRaw]_vars

----------------------------------------------------------------------------
(* Requests around the size above which streaming is forced.  The list of  *)
(* such a run is kept as its length: what main() does with it after the    *)
(* generation depends on nothing else.                                     *)

RECURSIVE BatchSum(_, _, _)
\* the documents the inner loop of generate_performance_dataset adds for one
\* tier, from batch_num on: batch_count of every batch that has one above 0
BatchSum(count, batchSize, num) ==
    IF num >= Batches(count, batchSize) THEN 0
    ELSE Draws(BatchCount(count, batchSize, num)) + BatchSum(count, batchSize, num + 1)

RECURSIVE SumDraws(_)
\* the documents of the loops `for i in range(tier_count)` over a plan
SumDraws(s) == IF s = <<>> THEN 0 ELSE Draws(Head(s)) + SumDraws(Tail(s))

\* len(documents) when the generation of request q (batch size not 0) returns
ListLength(q) ==
    IF q.prog = "perf" /\ q.type # "timeseries"
    THEN IF q.type = "mixed"
         THEN LET d == PerfDistribution(q.count)
              IN  BatchSum(d[1], q.batch, 0) + BatchSum(d[2], q.batch, 0)
                  + BatchSum(d[3], q.batch, 0) + BatchSum(d[4], q.batch, 0)
         ELSE BatchSum(q.count, q.batch, 0)
    ELSE IF q.type = "mixed"
         THEN SumDraws(IF q.prog = "doc" THEN DocDistribution(q.count)
                       ELSE LogsDistribution(q.count))
         ELSE Draws(q.count)

\* random.shuffle(documents) ends every mixed generation, and no other
ShufflesOf(q) == IF q.type = "mixed" THEN 1 ELSE 0

\* command lines with a count around StreamThreshold and the default batch size
BigRequests ==
    {q \in [prog : Progs,
            type : {"small", "medium", "large", "huge", "mixed", "timeseries",
                    "app", "access", "metric", "security"},
            count : (StreamThreshold - BigSpan)..(StreamThreshold + BigSpan),
            batch : {1, DefaultBatch},
            seedGiven : {FALSE},
            seed : {0},
            streaming : BOOLEAN,
            format : {"ndjson", "json"},
            entry : {"main"}] :
        /\ q.type \in Types(q.prog)
        /\ (q.prog = "perf" <=> q.batch = DefaultBatch)
        /\ (q.prog # "perf" => ~q.streaming)
        /\ (q.prog = "perf" => q.format = "ndjson")}

InitBig ==
    /\ \E q \in BigRequests : req = [r \in Runs |-> IF r = 1 THEN q ELSE IdleRequest]
    /\ proc = [r \in Runs |-> r]
    /\ pc = [r \in Runs |-> IF r = 1 THEN "start" ELSE "off"]
    /\ rnd = [r \in Runs |-> 0]
    /\ fk = [r \in Runs |-> 0]
    /\ clock = [r \in Runs |-> MaxClock]
    /\ InitRest

\* main() from its start to the opening of the output file, in one step: the
\* list is generated (and shuffled if mixed), then the save function is chosen
\* by the flag, the format and the length of the list, and opens the file
BulkRun(r) ==
    /\ pc[r] = "start"
    /\ shuffles' = [shuffles EXCEPT ![r] = ShufflesOf(req[r])]
    /\ sink' = [sink EXCEPT ![r] =
          [NoSink EXCEPT !.opens = 1, !.isOpen = TRUE,
                         !.writer = WriterFor(req[r], ListLength(req[r]))]]
    /\ pc' = [pc EXCEPT ![r] = "bulk"]
    /\ UNCHANGED <<req, proc, rngVars, clock, pools, registry, loopVars, documents, stats, error>>

NextBig == \E r \in Runs : BulkRun(r)

SpecBig == InitBig /\ [][NextBig]_vars

----------------------------------------------------------------------------
(* Runs of the performance generator that write about chunk_size documents.*)

\* single-tier command lines with a seed, the default batch size and a count
\* around ChunkSize, with and without --streaming
ChunkRequests ==
    {q \in [prog : {"perf"},
            type : {"medium"},
            count : (ChunkSize - ChunkSpan)..(ChunkSize + ChunkSpan),
            batch : {DefaultBatch},
            seedGiven : {TRUE},
            seed : {1},
            streaming : BOOLEAN,
            format : {"ndjson"},
            entry : {"main"}] : TRUE}

InitChunk ==
    /\ \E q \in ChunkRequests : req = [r \in Runs |-> IF r = 1 THEN q ELSE IdleRequest]
    /\ proc = [r \in Runs |-> r]
    /\ pc = [r \in Runs |-> IF r = 1 THEN "start" ELSE "off"]
    /\ rnd = [r \in Runs |-> 0]
    /\ fk = [r \in Runs |-> 0]
    /\ clock = [r \in Runs |-> MaxClock]
    /\ InitRest

\* a single-tier run whose output file takes every write, up to the close of
\* the file
StepChunk(r) ==
    \/ SeedSources(r)
    \/ Construct(r)
    \/ PerfPlan(r)
    \/ PerfBatch(r)
    \/ PerfNextTier(r)
    \/ PerfReturn(r)
    \/ OpenSink(r)
    \/ WriteDoc(r)
    \/ CloseSink(r)

NextChunk == \E r \in Runs : StepChunk(r)

SpecChunk == InitChunk /\ [][NextChunk]_vars

----------------------------------------------------------------------------
(* Two seeded runs of the performance generator in one process.            *)

\* seeded single-tier requests for a tier whose template does not read the
\* clock
SharedRequests ==
    {q \in Requests(MaxPairCount) :
        /\ q.prog = "perf"
        /\ q.type \in {"medium", "large"}
        /\ q.count > 0
        /\ SeedTruthy(q)}

\* both runs execute in process 1 and so use its `random` and its `fake`
InitShared ==
    /\ \E q1 \in SharedRequests : \E q2 \in SharedRequests :
          req = [r \in Runs |-> IF r = 1 THEN q1 ELSE q2]
    /\ proc = [r \in Runs |-> 1]
    /\ pc = [r \in Runs |-> "start"]
    /\ rnd = [r \in Runs |-> 0]
    /\ fk = [r \in Runs |-> 0]
    /\ clock = [r \in Runs |-> MaxClock]
    /\ InitRest

\* seeding, construction and generation of a single-tier list
StepShared(r) ==
    \/ SeedSources(r)
    \/ Construct(r)
    \/ PerfPlan(r)
    \/ PerfBatch(r)
    \/ PerfNextTier(r)
    \/ PerfReturn(r)

\* the steps of the two runs interleave in any order
NextShared == \E r \in Runs : StepShared(r)

SpecShared == InitShared /\ [][NextShared]_vars

\* the list a seeded single-tier request q of the performance generator
\* returns when nothing else draws from the sources: `random` starts from the
\* seed, `fake` from the seed advanced by the pools of __init__
SoloDocs(q) ==
    MakeDocs(q.type, 0, q.count, 0, SeedState(q.seed),
             Advance(SeedState(q.seed), PoolDraws))

----------------------------------------------------------------------------
(* One list written by both writers of the performance generator.          *)

\* seeded single-tier command lines for a tier whose template does not read
\* the clock: with and without --streaming they generate the same list
WriterRequests ==
    {q \in Requests(MaxPairCount) :
        /\ q.prog = "perf"
        /\ q.type \in {"medium", "large", "huge"}
        /\ SeedTruthy(q)
        /\ ~q.streaming}

\* process 1 runs the command line with --streaming, process 2 without
InitWriters ==
    /\ \E q \in WriterRequests :
          req = [r \in Runs |-> IF r = 1 THEN [q EXCEPT !.streaming = TRUE] ELSE q]
    /\ proc = [r \in Runs |-> r]
    /\ pc = [r \in Runs |-> "start"]
    /\ rnd = [r \in Runs |-> 0]
    /\ fk = [r \in Runs |-> 0]
    /\ clock = [r \in Runs |-> MaxClock]
    /\ InitRest

\* the processes share nothing: the second is run after the first has closed
\* its file
NextWriters ==
    \/ StepChunk(1)
    \/ (pc[1] = "stats" /\ StepChunk(2))

SpecWriters == InitWriters /\ [][NextWriters]_vars

----------------------------------------------------------------------------
(* The properties.                                                         *)

\* generation is over: the list main() saves is complete
Generated(r) == pc[r] \in {"save", "returned", "writing", "stats", "done", "crashed"}

\* the counts of a mixed request have been computed
Planned(r) == pc[r] \in {"generate", "save", "writing", "stats", "done", "crashed"}

\* the documents generated and still referenced: the list `documents` is
\* never emptied, so it is all of them
Held(r) == Len(documents[r])

DistinctIds(s) == Cardinality(Ids(s)) = Len(s)

MixedOf(r, progs) == req[r].prog \in progs /\ req[r].type = "mixed"

\* the weights of the tiers before the last
Weights(prog) ==
    IF prog = "logs" THEN <<PctApp, PctAccess, PctMetric>>
    ELSE <<PctSmall, PctMedium, PctLarge>>

\* the step-by-step runs agree with the summary BulkRun makes of them: when
\* the output file has been opened the list has ListLength documents, was
\* shuffled ShufflesOf times and is written by the writer WriterFor gives
BulkAgrees ==
    \A r \in Runs :
        (pc[r] = "writing" /\ req[r].batch # 0) =>
            /\ Len(documents[r]) = ListLength(req[r])
            /\ shuffles[r] = ShufflesOf(req[r])
            /\ sink[r].writer = WriterFor(req[r], ListLength(req[r]))
            /\ sink[r].opens = 1 /\ sink[r].isOpen

\* a run alone in its process returns SoloDocs
SoloAgrees ==
    \A r \in Runs :
        (/\ req[r].prog = "perf"
         /\ req[r].type \in {"medium", "large", "huge"}
         /\ SeedTruthy(req[r])
         /\ Generated(r)) =>
            documents[r] = SoloDocs(req[r])

\* C1: a mixed request of the performance generator returns exactly
\* total_count documents and its per-tier counts sum to total_count.
C1_PerfMixedCountExact ==
    \A r \in Runs :
        (MixedOf(r, {"perf"}) /\ Generated(r)) =>
            /\ Len(documents[r]) = req[r].count
            /\ SumSeq(plan[r]) = req[r].count

\* C2: in generate_mixed_documents and generate_mixed_logs every tier but the
\* last gets int(count * weight) documents, the last gets count minus the
\* earlier allocations, no tier count is negative, the counts sum to count, and
\* the list generated holds exactly the planned number of documents of every
\* tier, no identifier twice.
C2_LastTierTakesRemainder ==
    \A r \in Runs :
        (MixedOf(r, {"doc", "logs"}) /\ Planned(r)) =>
            /\ Len(plan[r]) = 4
            /\ \A k \in 1..3 : plan[r][k] = IntTimes(req[r].count, Weights(req[r].prog)[k])
            /\ plan[r][4] = req[r].count - plan[r][1] - plan[r][2] - plan[r][3]
            /\ \A k \in 1..4 : plan[r][k] >= 0
            /\ SumSeq(plan[r]) = req[r].count
            /\ Generated(r) =>
                  /\ Len(documents[r]) = req[r].count
                  /\ \A k \in 1..4 : CountTier(documents[r], order[r][k]) = plan[r][k]
                  /\ DistinctIds(documents[r])

\* a mixed run that ended with a last tier larger than its weight alone gives
C2_Witness ==
    \E r \in Runs :
        /\ MixedOf(r, {"doc", "logs"})
        /\ pc[r] = "done"
        /\ plan[r][4] > IntTimes(req[r].count, PctHuge)
        /\ CountTier(documents[r], order[r][4]) = plan[r][4]

\* C3: 10 mixed documents of generate_mixed_documents are 4 small, 3 medium,
\* 2 large and 1 huge.
C3_TenMixedDocuments ==
    \A r \in Runs :
        (MixedOf(r, {"doc"}) /\ req[r].count = 10 /\ Generated(r)) =>
            /\ CountTier(documents[r], "small") = 4
            /\ CountTier(documents[r], "medium") = 3
            /\ CountTier(documents[r], "large") = 2
            /\ CountTier(documents[r], "huge") = 1
            /\ Len(documents[r]) = 10

C3_Witness ==
    \E r \in Runs :
        /\ MixedOf(r, {"doc"})
        /\ req[r].count = 10
        /\ pc[r] = "done"
        /\ Len(sink[r].lines) = 10

\* C4: no two documents of the list of a run, and no two lines of its output,
\* have the same identifier, before the shuffle and after it.
C4_UniqueIds ==
    \A r \in Runs :
        /\ DistinctIds(documents[r])
        /\ DistinctIds(sink[r].lines)

\* a shuffled mixed corpus of the performance generator whose first tier took
\* several batches
C4_Witness ==
    \E r \in Runs :
        /\ MixedOf(r, {"perf"})
        /\ shuffles[r] = 1
        /\ req[r].batch < plan[r][1]
        /\ documents[r][1].tier # "small"
        /\ pc[r] = "done"

\* C5: two runs of the performance generator on the same command line with a
\* seed write the same output.
C5_SameSeedSameOutput ==
    (pc[1] = "done" /\ pc[2] = "done" /\ req[1] = req[2] /\ req[1].seedGiven) =>
        sink[1].lines = sink[2].lines

\* C6: the random sources are seeded if and only if a seed is given, for
\* every value of the seed.
C6_SeededIffSeedGiven ==
    \A r \in Runs :
        (pc[r] \notin {"off", "start"}) =>
            /\ rndSeeded[r] <=> req[r].seedGiven
            /\ fakeSeeded[r] <=> req[r].seedGiven

\* C7: a run with count 0 whose output file takes every operation ends
\* without an error, with an empty file and statistics that are all zero.
C7_EmptyRunCompletes ==
    \A r \in Runs :
        (req[r].count = 0 /\ Terminal(r) /\ error[r] # "OSError") =>
            /\ pc[r] = "done"
            /\ error[r] = "none"
            /\ sink[r].lines = <<>>
            /\ stats[r].printed
            /\ stats[r].documentCount = 0
            /\ stats[r].totalBytes = 0

\* C8: in a streaming run of the performance generator at most batch_size
\* documents are held in memory at any time.
C8_StreamingHoldsOneBatch ==
    \A r \in Runs :
        (req[r].prog = "perf" /\ req[r].type # "timeseries" /\ req[r].streaming) =>
            Held(r) <= req[r].batch

\* C9: when the output file fails after N documents were written, the final
\* statistics report documentCount = N.
C9_AbortReportsWritten ==
    \A r \in Runs :
        (pc[r] = "crashed" /\ error[r] = "OSError" /\ sink[r].opens = 1) =>
            /\ stats[r].printed
            /\ stats[r].documentCount = Len(sink[r].lines)

\* C10: the output file, once opened, is open while the write step runs and
\* has been closed exactly once on every way out of it, a failed write
\* included; it is never opened or closed twice.
C10_ClosedExactlyOnce ==
    \A r \in Runs :
        /\ sink[r].opens <= 1
        /\ sink[r].closes <= sink[r].opens
        /\ sink[r].opens = 1 =>
              IF pc[r] = "writing"
              THEN sink[r].isOpen /\ sink[r].closes = 0
              ELSE ~sink[r].isOpen /\ sink[r].closes = 1
        /\ sink[r].opens = 0 => ~sink[r].isOpen

\* a write failed part-way through and the file was closed
C10_Witness ==
    \E r \in Runs :
        /\ error[r] = "OSError"
        /\ Len(sink[r].lines) > 0
        /\ Len(sink[r].lines) < Len(documents[r])
        /\ sink[r].closes = 1
        /\ ~sink[r].isOpen

\* C11: a request for a tier that is not registered ends with an error before
\* any document is generated or any output is written, whatever the count and
\* the batch size: the generation function never returns a list for it.
C11_UnknownTierRejected ==
    \A r \in Runs :
        (req[r].type \notin Types(req[r].prog)) =>
            /\ pc[r] # "returned"
            /\ documents[r] = <<>>
            /\ sink[r].opens = 0

\* C12: a request with a batch size of 0 or less, or with a negative count, ends
\* with an error before generation returns anything: its generation function
\* never returns a list, its output file is never opened and the run does not
\* complete.
C12_InvalidSizesRejected ==
    \A r \in Runs :
        (req[r].batch <= 0 \/ req[r].count < 0) =>
            /\ pc[r] \notin {"save", "returned", "writing", "stats", "done"}
            /\ sink[r].opens = 0

\* C13: whenever the performance generator opens its output file for a request
\* with the streaming flag set or with a requested count above 50,000, single
\* tier or mixed, it writes it with the streaming writer.
C13_StreamingAboveThreshold ==
    \A r \in Runs :
        (/\ req[r].prog = "perf"
         /\ sink[r].opens = 1
         /\ (req[r].streaming \/ req[r].count > StreamThreshold)) =>
            sink[r].writer = "streaming"

\* C14: while the performance generator writes its output, with the streaming
\* writer or without, never more than the flush interval of documents have
\* been written since the last flush, and once the n documents of a run are
\* written and the file is closed it has been flushed ceil(n / interval) times,
\* the flush of the close included.
C14_FlushEveryInterval ==
    \A r \in Runs :
        req[r].prog = "perf" =>
            /\ sink[r].sinceFlush <= ChunkSize
            /\ pc[r] \in {"stats", "done"} =>
                  sink[r].flushes = (Len(sink[r].lines) + ChunkSize - 1) \div ChunkSize

\* C15: the streaming writer, which main() calls without a flush interval,
\* flushes after every batch_size-th document it writes.
C15_FlushIntervalIsBatchSize ==
    \A r \in Runs :
        (sink[r].writer = "streaming" /\ pc[r] = "writing") =>
            /\ sink[r].flushes = Len(sink[r].lines) \div req[r].batch
            /\ sink[r].sinceFlush = Len(sink[r].lines) % req[r].batch

\* C16: when a run has completed, a line-delimited output file holds the
\* documents of the list, one line each, in the order of the list, and the
\* number of its lines is the document count the statistics report; an array
\* output file holds one complete array with the documents of the list in
\* order, whose length is the reported count.
C16_OutputMatchesList ==
    \A r \in Runs :
        pc[r] = "done" =>
            IF sink[r].writer = "array"
            THEN /\ sink[r].arrayDone
                 /\ sink[r].array = documents[r]
                 /\ Len(sink[r].array) = stats[r].documentCount
                 /\ sink[r].lines = <<>>
            ELSE /\ sink[r].lines = documents[r]
                 /\ Len(sink[r].lines) = stats[r].documentCount
                 /\ sink[r].array = <<>>
                 /\ ~sink[r].arrayDone

\* a completed run that wrote a shuffled mixed list of several documents as
\* one array
C16_Witness ==
    \E r \in Runs :
        /\ pc[r] = "done"
        /\ req[r].format = "json"
        /\ sink[r].writer = "array"
        /\ shuffles[r] = 1
        /\ Len(sink[r].array) > 1
        /\ stats[r].printed

\* C17: a request for array output of more than 50,000 documents is never
\* written by serializing the list held in memory: it is rejected before the
\* output file is opened, or written some other way.
C17_LargeArrayNotInMemory ==
    \A r \in Runs :
        (req[r].format = "json" /\ req[r].count > StreamThreshold) =>
            /\ sink[r].writer # "array"
            /\ sink[r].opens = 1 => error[r] = "none"

\* C18: a mixed list of the performance generator that is longer than 50,000
\* documents and is written by the streaming writer has not been shuffled.
C18_NoShuffleWhenStreaming ==
    \A r \in Runs :
        (/\ req[r].prog = "perf"
         /\ req[r].type = "mixed"
         /\ sink[r].writer = "streaming"
         /\ ListLength(req[r]) > StreamThreshold) =>
            shuffles[r] = 0

\* C19: a run cancelled while its list was being generated has left no file
\* open and has reported partial statistics, marked incomplete, whose document
\* count is the number of documents written to the output.
C19_CancelReportsPartial ==
    \A r \in Runs :
        error[r] = "KeyboardInterrupt" =>
            /\ ~sink[r].isOpen
            /\ stats[r].printed
            /\ ~stats[r].complete
            /\ stats[r].documentCount = Len(sink[r].lines)

\* C20: of two seeded runs whose generation steps interleave in one process,
\* each returns the list it returns when it runs alone with its seed.
C20_InterleavedRunsIndependent ==
    \A r \in Runs :
        pc[r] = "save" => documents[r] = SoloDocs(req[r])

\* C21: the performance generator opens its output file before it generates
\* the first batch, and every batch is written before the next is generated:
\* between two batches no generated document is unwritten.
C21_BatchWrittenBeforeNext ==
    \A r \in Runs :
        (req[r].prog = "perf" /\ req[r].type # "timeseries") =>
            /\ Len(documents[r]) > 0 => sink[r].opens = 1
            /\ pc[r] = "generate" => Len(sink[r].lines) = Len(documents[r])

\* the order of the tiers a mixed corpus is to be generated in
TierOrder == <<"small", "medium", "large", "huge">>

TierRank(t) == CHOOSE k \in 1..4 : TierOrder[k] = t

\* no document of a tier stands before a document of an earlier tier
TierSorted(s) ==
    \A i \in 1..Len(s) : \A j \in i..Len(s) : TierRank(s[i].tier) <= TierRank(s[j].tier)

\* C22: a mixed request of the performance generator or of the document
\* generator is generated tier by tier in the order small, medium, large, huge:
\* while a tier is generated every earlier tier already has its whole quota
\* and no later tier has a document, nothing is shuffled before the last batch
\* of the last tier, and the list is shuffled exactly once when generation
\* returns.
C22_TierSequential ==
    \A r \in Runs :
        MixedOf(r, {"perf", "doc"}) =>
            /\ shuffles[r] <= 1
            /\ Planned(r) => order[r] = TierOrder
            /\ pc[r] \in {"generate", "aborted"} =>
                  /\ shuffles[r] = 0
                  /\ TierSorted(documents[r])
                  /\ \A i \in 1..Len(documents[r]) :
                        TierRank(documents[r][i].tier) <= tierIdx[r]
                  /\ \A k \in 1..4 :
                        k < tierIdx[r] => CountTier(documents[r], TierOrder[k]) = plan[r][k]
            /\ Generated(r) =>
                  /\ shuffles[r] = 1
                  /\ \A k \in 1..4 : CountTier(documents[r], TierOrder[k]) = plan[r][k]

\* the last batch of the last tier of a mixed request of the performance
\* generator was generated after several batches of the earlier tiers, and
\* the shuffle is still to come
C22_Witness ==
    \E r \in Runs :
        /\ MixedOf(r, {"perf"})
        /\ pc[r] = "generate"
        /\ tierIdx[r] = 4
        /\ batchNum[r] = 1
        /\ CountTier(documents[r], "huge") = 1
        /\ CountTier(documents[r], "small") > req[r].batch
        /\ shuffles[r] = 0

RECURSIVE SumBatches(_, _, _)
\* the batches of the tiers before the k-th of plan p, ceil(quota / b) each
SumBatches(p, k, b) ==
    IF k <= 1 THEN 0 ELSE (p[k - 1] + b - 1) \div b + SumBatches(p, k - 1, b)

RECURSIVE SumQuota(_, _)
\* the quotas of the tiers before the k-th of plan p
SumQuota(p, k) == IF k <= 1 THEN 0 ELSE p[k - 1] + SumQuota(p, k - 1)

\* C23: for every tier of a request of the performance generator with quota q
\* and batch size b, after batchNum turns of the loop of the tier min(batchNum
\* * b, q) documents of the tier are generated (each batch holds min(b, what
\* is left of the quota), at least 1 and at most b), never more than ceil(q /
\* b) batches are issued, every batch issued is counted, and when the loop of
\* the tier ends the tier has exactly q documents from exactly ceil(q / b)
\* batches.
C23_BatchArithmetic ==
    \A r \in Runs :
        (req[r].prog = "perf" /\ req[r].type # "timeseries" /\ pc[r] = "generate") =>
            LET b == req[r].batch
                k == tierIdx[r]
            IN  /\ currentId[r] = Len(documents[r])
                /\ IF k > Len(order[r])
                   THEN /\ currentId[r] = SumQuota(plan[r], k)
                        /\ batchesProcessed[r] = SumBatches(plan[r], k, b)
                   ELSE LET q == plan[r][k]
                            made == currentId[r] - SumQuota(plan[r], k)
                        IN  /\ batchNum[r] <= (q + b - 1) \div b
                            /\ made = Min(batchNum[r] * b, q)
                            /\ made = CountTier(documents[r], order[r][k])
                            /\ batchesProcessed[r] = SumBatches(plan[r], k, b) + batchNum[r]
                            /\ batchNum[r] = (q + b - 1) \div b => made = q

\* a tier whose quota is no multiple of the batch size has had its last,
\* shorter batch
C23_Witness ==
    \E r \in Runs :
        /\ req[r].prog = "perf"
        /\ pc[r] = "generate"
        /\ tierIdx[r] <= Len(order[r])
        /\ req[r].batch = 2
        /\ plan[r][tierIdx[r]] % 2 = 1
        /\ plan[r][tierIdx[r]] >= 3
        /\ batchNum[r] * 2 = plan[r][tierIdx[r]] + 1
        /\ CountTier(documents[r], order[r][tierIdx[r]]) = plan[r][tierIdx[r]]

\* C24: a single-tier request for n documents generates exactly n documents,
\* all of the requested tier, with the identifiers tier_0 .. tier_(n-1) in that
\* order; the list is not shuffled, and a line-delimited output holds the
\* documents written so far in ascending order of their index.
C24_SingleTierInOrder ==
    \A r \in Runs :
        (req[r].type \notin {"mixed", "timeseries"}) =>
            /\ shuffles[r] = 0
            /\ \A i \in 1..Len(documents[r]) :
                  /\ documents[r][i].tier = req[r].type
                  /\ documents[r][i].idx = i - 1
            /\ Len(documents[r]) <= req[r].count
            /\ Generated(r) => Len(documents[r]) = req[r].count
            /\ \A i \in 1..Len(sink[r].lines) :
                  /\ sink[r].lines[i].tier = req[r].type
                  /\ sink[r].lines[i].idx = i - 1
            /\ (pc[r] = "done" /\ sink[r].writer # "array") =>
                  Len(sink[r].lines) = req[r].count

\* a completed single-tier run of the performance generator that took several
\* batches, the last one shorter
C24_Witness ==
    \E r \in Runs :
        /\ req[r].prog = "perf"
        /\ req[r].type = "large"
        /\ req[r].batch = 2
        /\ req[r].count = 5
        /\ pc[r] = "done"
        /\ Len(sink[r].lines) = 5
        /\ sink[r].lines[5].idx = 4

\* C25: when a mixed run of the logs generator for n >= 1 entries has
\* completed, the per-type counts it reports sum to the entry count it
\* reports, which is n, and the count of every type is the allocation of the
\* type: floor(0.5 n) application, floor(0.3 n) access, floor(0.15 n) metric
\* and the remainder security, although the list was shuffled.
C25_LogTypeCountsMatchPlan ==
    \A r \in Runs :
        (MixedOf(r, {"logs"}) /\ req[r].count >= 1 /\ pc[r] = "done") =>
            LET n == req[r].count
                c == stats[r].perTier
            IN  /\ Len(c) = 4
                /\ c[1] + c[2] + c[3] + c[4] = stats[r].documentCount
                /\ stats[r].documentCount = n
                /\ c[1] = (n * 50) \div 100
                /\ c[2] = (n * 30) \div 100
                /\ c[3] = (n * 15) \div 100
                /\ c[4] = n - c[1] - c[2] - c[3]
                /\ \A k \in 1..4 : c[k] = plan[r][k]
                /\ shuffles[r] = 1

\* a completed mixed logs run with entries of all four types, shuffled so
\* that the security entry is no longer the last
C25_Witness ==
    \E r \in Runs :
        /\ MixedOf(r, {"logs"})
        /\ pc[r] = "done"
        /\ req[r].count = 20
        /\ stats[r].perTier = <<10, 6, 3, 1>>
        /\ documents[r][20].tier # "security"

\* C26: a step of the generation loop of the performance generator (a call of
\* generate_batch and of the templates) leaves the registry of templates and
\* the pre-generated pools of the generator as they were, keeps the documents
\* generated before, and every document it adds carries the identifier it was
\* called with: the tier of the batch and the index start_id + i.
C26_BatchFrame ==
    [][\A r \in Runs :
          (req[r].prog = "perf" /\ pc[r] = "generate" /\ pc'[r] = "generate") =>
              /\ registry'[r] = registry[r]
              /\ pools'[r] = pools[r]
              /\ Len(documents'[r]) >= Len(documents[r])
              /\ \A i \in 1..Len(documents[r]) : documents'[r][i] = documents[r][i]
              /\ \A i \in (Len(documents[r]) + 1)..Len(documents'[r]) :
                    /\ documents'[r][i].tier = order[r][tierIdx[r]]
                    /\ documents'[r][i].idx = currentId[r] + (i - Len(documents[r]) - 1)]_vars

\* a generator with its four templates registered whose loop has generated
\* two batches of two documents
C26_Witness ==
    \E r \in Runs :
        /\ req[r].prog = "perf"
        /\ pc[r] = "generate"
        /\ registry[r] = {"small", "medium", "large", "huge"}
        /\ req[r].batch = 2
        /\ batchNum[r] = 2
        /\ Len(documents[r]) = 4
        /\ documents[r][4].idx = 3

\* C27: a mixed request of the performance generator for total_count documents
\* never generates more than total_count documents and returns at most 3
\* fewer, and no tier gets more than floor(total_count * weight) documents.
C27_PerfMixedShortfall ==
    \A r \in Runs :
        MixedOf(r, {"perf"}) =>
            /\ Len(documents[r]) <= req[r].count
            /\ Planned(r) =>
                  /\ plan[r][1] <= (req[r].count * 40) \div 100
                  /\ plan[r][2] <= (req[r].count * 35) \div 100
                  /\ plan[r][3] <= (req[r].count * 20) \div 100
                  /\ plan[r][4] <= (req[r].count * 5) \div 100
                  /\ \A k \in 1..4 : CountTier(documents[r], TierOrder[k]) <= plan[r][k]
            /\ Generated(r) =>
                  /\ req[r].count - Len(documents[r]) >= 0
                  /\ req[r].count - Len(documents[r]) <= 3

\* a completed mixed run that is 3 documents short
C27_Witness ==
    \E r \in Runs :
        /\ MixedOf(r, {"perf"})
        /\ pc[r] = "done"
        /\ req[r].count = 19
        /\ stats[r].documentCount = 16

\* how often d occurs in s
Occurrences(s, d) == Cardinality({i \in 1..Len(s) : s[i] = d})

\* s and t hold the same documents, each as often
SameDocuments(s, t) ==
    /\ Len(s) = Len(t)
    /\ \A i \in 1..Len(s) : Occurrences(t, s[i]) = Occurrences(s, s[i])

\* C28: the shuffle that ends a mixed generation is a permutation of the
\* list: the list after it holds the same documents as the list before it,
\* each as often, so the identifiers, the length and the count of every tier
\* are the same.
C28_ShuffleIsPermutation ==
    [][\A r \in Runs :
          shuffles'[r] # shuffles[r] =>
              /\ shuffles'[r] = shuffles[r] + 1
              /\ SameDocuments(documents[r], documents'[r])
              /\ Ids(documents'[r]) = Ids(documents[r])
              /\ \A t \in {"small", "medium", "large", "huge",
                           "app", "access", "metric", "security"} :
                    CountTier(documents'[r], t) = CountTier(documents[r], t)]_vars

\* a mixed list of the logs generator that the shuffle left in another order
\* than the one it was generated in
C28_Witness ==
    \E r \in Runs :
        /\ MixedOf(r, {"logs"})
        /\ pc[r] = "save"
        /\ shuffles[r] = 1
        /\ Len(documents[r]) = 20
        /\ \E i \in 1..19 : documents[r][i].tier = "security"

\* C29: in the performance generator the index of an identifier is one counter
\* over the whole request: until the list is shuffled its k-th document (k
\* from 0) has index k, so m documents have the indices 0..m-1, each once, and
\* the medium documents of a mixed list start at the index equal to the number
\* of small documents.  In generate_mixed_documents the indices of every tier
\* start at 0.
C29_OneCounterPerRequest ==
    \A r \in Runs :
        /\ (req[r].prog = "perf" /\ req[r].type # "timeseries") =>
              /\ shuffles[r] = 0 =>
                    /\ \A i \in 1..Len(documents[r]) : documents[r][i].idx = i - 1
                    /\ Planned(r) => currentId[r] = Len(documents[r])
              /\ {documents[r][i].idx : i \in 1..Len(documents[r])}
                    = 0..(Len(documents[r]) - 1)
              /\ (req[r].type = "mixed" /\ Planned(r)) =>
                    \A i \in 1..Len(documents[r]) :
                        documents[r][i].tier = "medium" =>
                            /\ documents[r][i].idx >= plan[r][1]
                            /\ documents[r][i].idx < plan[r][1] + plan[r][2]
        /\ (MixedOf(r, {"doc"}) /\ Planned(r)) =>
              \A k \in 1..4 :
                  {documents[r][i].idx : i \in {j \in 1..Len(documents[r]) :
                                                   documents[r][j].tier = TierOrder[k]}}
                      = 0..(CountTier(documents[r], TierOrder[k]) - 1)

\* the first medium document of a mixed list of the performance generator,
\* generated after 8 small ones in batches of 2, has index 8
C29_Witness ==
    \E r \in Runs :
        /\ MixedOf(r, {"perf"})
        /\ pc[r] = "generate"
        /\ req[r].batch = 2
        /\ plan[r][1] = 8
        /\ Len(documents[r]) > 8
        /\ documents[r][9].tier = "medium"
        /\ documents[r][9].idx = 8

====
